---- MODULE Spec2Model ----
(***************************************************************************)
(* The suggestion pipeline of the developer assistant: AIHelper            *)
(* (processCodeContent, detectErrors, generateSuggestions,                 *)
(* findRelevantSnippets) over the SQLite store of code-storage.ts          *)
(* (error_patterns, snippets, developer_context).                          *)
(*                                                                         *)
(* Text is a sequence of one-character strings.  Instants are integers     *)
(* (milliseconds); toISOString() is monotone on them, so the store's       *)
(* string comparison of timestamps is the comparison of the integers.      *)
(***************************************************************************)
EXTENDS Integers, Sequences, FiniteSets, TLC

\* ------------------------------------------------------------------ bounds
MaxCalls == 2
MaxTime == 1
MaxFaults == 1
MaxSnippets == 3
MaxContent == 7
MaxPatterns == 6
MaxFrequency == 2

\* ------------------------------------------------------- program constants
RecordPrefixLen == 50
LookupPrefixLen == 100
SearchTermLen == 50
SolutionsLimit == 5
SuggestionSnippetLimit == 3
ExactMatchLimit == 2
MaxSuggestions == 3
MaxRelevant == 2
MsPerDay == 86400000

None == "undefined"

\* ------------------------------------------------------------------- text
UpperLetters == <<"A","B","C","D","E","F","G","H","I","J","K","L","M",
                  "N","O","P","Q","R","S","T","U","V","W","X","Y","Z">>
LowerLetters == <<"a","b","c","d","e","f","g","h","i","j","k","l","m",
                  "n","o","p","q","r","s","t","u","v","w","x","y","z">>

\* String.prototype.toLowerCase / the ASCII case folding of the i flag and of LIKE
UpperSet == {UpperLetters[i] : i \in 1..26}
LowerMap == [ch \in UpperSet |-> LowerLetters[CHOOSE i \in 1..26 : UpperLetters[i] = ch]]

Lower(ch) == IF ch \in UpperSet THEN LowerMap[ch] ELSE ch

ToLowerCase(s) == [i \in 1..Len(s) |-> Lower(s[i])]

\* \s of a regular expression, and the white space trim() removes
IsSpace(ch) == ch \in {" ", "\t", "\n", "\r", "\f"}

\* what . does not match
IsLineTerminator(ch) == ch \in {"\n", "\r"}

\* s.substring(0, n) and s.slice(0, n), n >= 0
Substring0(s, n) == IF Len(s) <= n THEN s ELSE SubSeq(s, 1, n)

RECURSIVE SkipWhile(_, _, _)
\* the first position >= i of s whose character is not in class, or Len(s)+1
SkipWhile(s, i, class) ==
  IF i <= Len(s) /\ s[i] \in class THEN SkipWhile(s, i + 1, class) ELSE i

SpaceChars == {" ", "\t", "\n", "\r", "\f"}
DigitChars == {"0","1","2","3","4","5","6","7","8","9"}

RECURSIVE LineEnd(_, _)
\* the first position >= i of s holding a line terminator, or Len(s)+1: where .* stops
LineEnd(s, i) ==
  IF i <= Len(s) /\ ~IsLineTerminator(s[i]) THEN LineEnd(s, i + 1) ELSE i

RECURSIVE LastNonSpace(_, _)
LastNonSpace(s, j) ==
  IF j >= 1 /\ IsSpace(s[j]) THEN LastNonSpace(s, j - 1) ELSE j

\* String.prototype.trim
Trim(s) ==
  LET a == SkipWhile(s, 1, SpaceChars)
      b == LastNonSpace(s, Len(s))
  IN IF a > b THEN <<>> ELSE SubSeq(s, a, b)

\* the literal lit stands in s at the 1-based position i; ci: ignoring ASCII case
LitAt(s, i, lit, ci) ==
  /\ i + Len(lit) - 1 <= Len(s)
  /\ \A k \in 1..Len(lit) :
       IF ci THEN Lower(s[i + k - 1]) = Lower(lit[k]) ELSE s[i + k - 1] = lit[k]

\* ------------------------------------------------- SQLite's LIKE operator
RECURSIVE LikeFrom(_, _, _, _)
\* pattern p from position i matches s from position j to its end:
\* % any run, _ any one character, anything else itself, ASCII case folded
LikeFrom(p, i, s, j) ==
  IF i > Len(p) THEN j > Len(s)
  ELSE IF p[i] = "%" THEN \E k \in j..(Len(s) + 1) : LikeFrom(p, i + 1, s, k)
  ELSE IF p[i] = "_" THEN j <= Len(s) /\ LikeFrom(p, i + 1, s, j + 1)
  ELSE j <= Len(s) /\ Lower(p[i]) = Lower(s[j]) /\ LikeFrom(p, i + 1, s, j + 1)

Like(s, p) == LikeFrom(p, 1, s, 1)

\* the bound parameter `%${term}%`
Contains(term) == <<"%">> \o term \o <<"%">>

\* ------------------------------------------- detectErrors' four signatures
LitError == <<"e","r","r","o","r">>
LitSyntaxError == <<"S","y","n","t","a","x","E","r","r","o","r">>
LitTypeError == <<"T","y","p","e","E","r","r","o","r">>
LitReferenceError == <<"R","e","f","e","r","e","n","c","e","E","r","r","o","r">>
LitException == <<"e","x","c","e","p","t","i","o","n">>
LitUnhandled == <<"u","n","h","a","n","d","l","e","d">>

NumPatterns == 4

\* after a signature's head ended before position j: \s*(.*), which always matches;
\* the position after the match
RestEnd(s, j) == LineEnd(s, SkipWhile(s, j, SpaceChars))

\* /error\s*:\s*(.*)/i at position i: the position after the match, 0 for none
GenericErrorAt(s, i) ==
  IF ~LitAt(s, i, LitError, TRUE) THEN 0
  ELSE LET j == SkipWhile(s, i + Len(LitError), SpaceChars)
       IN IF j <= Len(s) /\ s[j] = ":" THEN RestEnd(s, j + 1) ELSE 0

\* /(SyntaxError|TypeError|ReferenceError):\s*(.*)/ at position i
TypedErrorAt(s, i) ==
  LET heads == {h \in {LitSyntaxError, LitTypeError, LitReferenceError} :
                  LitAt(s, i, h, FALSE)}
  IN IF heads = {} THEN 0
     ELSE LET j == i + Len(CHOOSE h \in heads : TRUE)
          IN IF j <= Len(s) /\ s[j] = ":" THEN RestEnd(s, j + 1) ELSE 0

\* /(E\d+):\s*(.*)/ at position i
CodedErrorAt(s, i) ==
  IF ~(i <= Len(s) /\ s[i] = "E") THEN 0
  ELSE LET j == SkipWhile(s, i + 1, DigitChars)
       IN IF j > i + 1 /\ j <= Len(s) /\ s[j] = ":" THEN RestEnd(s, j + 1) ELSE 0

\* /(exception|unhandled)\s*(.*)/i at position i
ExceptionAt(s, i) ==
  LET heads == {h \in {LitException, LitUnhandled} : LitAt(s, i, h, TRUE)}
  IN IF heads = {} THEN 0 ELSE RestEnd(s, i + Len(CHOOSE h \in heads : TRUE))

\* errorPatterns[k] tried at position i
PatternAt(k, s, i) ==
  CASE k = 1 -> GenericErrorAt(s, i)
    [] k = 2 -> TypedErrorAt(s, i)
    [] k = 3 -> CodedErrorAt(s, i)
    [] OTHER -> ExceptionAt(s, i)

\* code.match(errorPatterns[k]) is not null
Matches(k, s) == \E i \in 1..Len(s) : PatternAt(k, s, i) # 0

\* match[0] of code.match(errorPatterns[k]): the leftmost match
MatchText(k, s) ==
  LET i == CHOOSE a \in 1..Len(s) :
             /\ PatternAt(k, s, a) # 0
             /\ \A b \in 1..(a - 1) : PatternAt(k, s, b) = 0
  IN SubSeq(s, i, PatternAt(k, s, i) - 1)

RECURSIVE NextCandidate(_, _)
\* the first signature from k on that matches s, NumPatterns + 1 for none:
\* the for loop skipping the signatures that do not match
NextCandidate(s, k) ==
  IF k > NumPatterns THEN k
  ELSE IF Matches(k, s) THEN k ELSE NextCandidate(s, k + 1)

\* ---------------------------------------------------------------- the store
\* JSON.stringify of an array of strings (tags hold no quote or backslash)
RECURSIVE StringifyItems(_, _)
StringifyItems(tags, i) ==
  IF i > Len(tags) THEN <<>>
  ELSE (IF i > 1 THEN <<",">> ELSE <<>>) \o <<"\"">> \o tags[i] \o <<"\"">>
         \o StringifyItems(tags, i + 1)

JsonStringify(tags) == <<"[">> \o StringifyItems(tags, 1) \o <<"]">>

RECURSIVE ParseFrom(_, _, _, _, _)
ParseFrom(j, i, cur, inQuote, acc) ==
  IF i > Len(j) THEN acc
  ELSE IF j[i] = "\""
       THEN IF inQuote THEN ParseFrom(j, i + 1, <<>>, FALSE, Append(acc, cur))
                       ELSE ParseFrom(j, i + 1, <<>>, TRUE, acc)
  ELSE IF inQuote THEN ParseFrom(j, i + 1, Append(cur, j[i]), TRUE, acc)
  ELSE ParseFrom(j, i + 1, cur, FALSE, acc)

\* JSON.parse of such an array
JsonParse(j) == ParseFrom(j, 1, <<>>, FALSE, <<>>)

\* a JavaScript value used as a condition: undefined and "" are falsy
Truthy(v) == v # None /\ v # ""

RECURSIVE TopSeqs(_, _, _, _)
\* ORDER BY column DESC LIMIT n over the rows idx of table: every order the
\* engine may return (rows of equal column come in an order SQL leaves open)
TopSeqs(table, idx, column, n) ==
  IF n = 0 \/ idx = {} THEN {<<>>}
  ELSE UNION {{<<table[i]>> \o q : q \in TopSeqs(table, idx \ {i}, column, n - 1)} :
               i \in {a \in idx : \A b \in idx : table[a][column] >= table[b][column]}}

\* WHERE language = ? AND errorText LIKE ?
ErrorRowsLike(table, language, term) ==
  {i \in DOMAIN table :
     table[i].language = language /\ Like(table[i].errorText, Contains(term))}

\* mutant: the query without its LIMIT
GetErrorSolutionsUncapped(table, errorText, language) ==
  LET hit == ErrorRowsLike(table, language, Substring0(errorText, LookupPrefixLen))
  IN TopSeqs(table, hit, "frequency", Cardinality(hit))

\* getErrorSolutions: the possible results
GetErrorSolutions(table, errorText, language) ==
  TopSeqs(table,
          ErrorRowsLike(table, language, Substring0(errorText, LookupPrefixLen)),
          "frequency", SolutionsLimit)

\* recordError's SELECT ... LIMIT 1: <<row>> for any matching row, <<>> for none
SelectExisting(table, errorText, language) ==
  LET hit == ErrorRowsLike(table, language, Substring0(errorText, RecordPrefixLen))
  IN IF hit = {} THEN {<<>>} ELSE {<<table[i]>> : i \in hit}

\* mutant: the UPDATE writes back the frequency it read
UpdateErrorStale(table, existing, solution, at) ==
  [i \in DOMAIN table |->
     IF table[i].id = existing.id
     THEN [table[i] EXCEPT !.frequency = existing.frequency,
                           !.lastEncountered = at,
                           !.solution = solution]
     ELSE table[i]]

\* recordError's UPDATE ... WHERE id = ?
UpdateError(table, existing, solution, at) ==
  [i \in DOMAIN table |->
     IF table[i].id = existing.id
     THEN [table[i] EXCEPT !.frequency = existing.frequency + 1,
                           !.lastEncountered = at,
                           !.solution = solution]
     ELSE table[i]]

\* mutant: the new pattern is inserted with a count of 0
InsertErrorZero(table, id, errorText, solution, language, at) ==
  Append(table, [id |-> id, errorText |-> errorText, solution |-> solution,
                 language |-> language, frequency |-> 0, lastEncountered |-> at])

\* recordError's INSERT of the new pattern
InsertError(table, id, errorText, solution, language, at) ==
  Append(table, [id |-> id, errorText |-> errorText, solution |-> solution,
                 language |-> language, frequency |-> 1, lastEncountered |-> at])

\* getSnippets' WHERE clause
SnippetRows(table, language, searchTerm) ==
  {i \in DOMAIN table :
     /\ Truthy(language) => table[i].language = language
     /\ searchTerm # <<>> =>
          \/ Like(table[i].content, Contains(searchTerm))
          \/ Like(table[i].tags, Contains(searchTerm))}

\* rows.map(row => ({...row, tags: JSON.parse(row.tags), ...}))
SnippetOf(row) == [row EXCEPT !.tags = JsonParse(row.tags)]

\* getSnippets: the possible results; limit 0 stands for no limit
GetSnippets(table, language, searchTerm, limit) ==
  LET idx == SnippetRows(table, language, searchTerm)
      rows == TopSeqs(table, idx, "timestamp",
                      IF limit = 0 THEN Cardinality(idx) ELSE limit)
  IN {[k \in DOMAIN q |-> SnippetOf(q[k])] : q \in rows}

\* saveSnippet's INSERT
InsertSnippet(table, id, content, language, tags, at) ==
  Append(table, [id |-> id, content |-> content, language |-> language,
                 tags |-> JsonStringify(tags), timestamp |-> at])

\* updateDeveloperContext's INSERT: context.currentApp || 'unknown'
InsertContext(table, id, app, file, at) ==
  Append(table, [id |-> id,
                 currentApp |-> IF Truthy(app) THEN app ELSE "unknown",
                 activeFile |-> file, lastActivity |-> at])

\* DELETE FROM t WHERE column < cutoff
RECURSIVE DeleteOlder(_, _, _)
DeleteOlder(table, column, cutoff) ==
  IF table = <<>> THEN <<>>
  ELSE (IF Head(table)[column] < cutoff THEN <<>> ELSE <<Head(table)>>)
         \o DeleteOlder(Tail(table), column, cutoff)

\* cutoffDate.setDate(cutoffDate.getDate() - daysToKeep)
CutoffDate(at, daysToKeep) == at - daysToKeep * MsPerDay

\* ------------------------------------------------------ the completion API
\* a response of openai.chat.completions.create: it threw, or
\* choices[0]?.message?.content (absent content is the empty text)
ApiThrow == [threw |-> TRUE, content |-> <<>>]
ApiText(t) == [threw |-> FALSE, content |-> t]

\* generateErrorSolution: content?.trim() || undefined, undefined when the call
\* throws; the empty text stands for undefined (both are falsy)
GenerateErrorSolution(resp) == IF resp.threw THEN <<>> ELSE Trim(resp.content)

\* the character U+2022, one character of the text
Bullet == "BULLET"
BulletChars == {"-", Bullet}

RECURSIVE SplitLines(_, _, _)
\* content.split('\n') from position i on, cur being the line read so far
SplitLines(s, i, cur) ==
  IF i > Len(s) THEN <<cur>>
  ELSE IF s[i] = "\n" THEN <<cur>> \o SplitLines(s, i + 1, <<>>)
  ELSE SplitLines(s, i + 1, Append(cur, s[i]))

\* line.startsWith('-') || line.startsWith(BULLET)
IsBulletLine(line) == Len(line) > 0 /\ line[1] \in BulletChars

\* mutant: the marker is left in place
StripBulletKeeps(line) == Trim(line)

\* line.replace(/^[-BULLET]\s*/, '').trim()
StripBullet(line) ==
  Trim(IF IsBulletLine(line)
       THEN LET j == SkipWhile(line, 2, SpaceChars)
            IN IF j > Len(line) THEN <<>> ELSE SubSeq(line, j, Len(line))
       ELSE line)

\* .filter(...).map(...) over the lines
RECURSIVE BulletItems(_)
BulletItems(lines) ==
  IF lines = <<>> THEN <<>>
  ELSE (IF IsBulletLine(Head(lines)) THEN <<StripBullet(Head(lines))>> ELSE <<>>)
         \o BulletItems(Tail(lines))

\* generateSuggestions' parse of the response: [] for absent or empty content
ParseSuggestions(content) ==
  IF content = <<>> THEN <<>>
  ELSE Substring0(BulletItems(SplitLines(content, 1, <<>>)), MaxSuggestions)

\* generateSuggestions' result for a response: the catch returns []
SuggestionsOf(resp) == IF resp.threw THEN <<>> ELSE ParseSuggestions(resp.content)

\* ------------------------------------------------------------------- state
VARIABLES
  now,            \* the clock new Date() reads, in milliseconds
  nextId,         \* the next uuidv4(): ids are fresh
  nextCtxId,      \* developer_context's AUTOINCREMENT counter
  errorPatterns,  \* table error_patterns, in rowid order
  snippets,       \* table snippets, in rowid order (the columns the pipeline reads)
  contexts,       \* table developer_context, in rowid order
  proc,           \* per call: processCodeContent's position and arguments
  det,            \* per call: detectErrors' position, locals and history
  sug,            \* per call: generateSuggestions' position and result
  snp,            \* per call: findRelevantSnippets' position, result and history
  sweep,          \* cleanupOldData's position and cutoff
  faults,         \* storage failures so far
  started,        \* calls of processCodeContent so far
  past            \* the calls whose frame is gone: text, language and outcome

vars == <<now, nextId, nextCtxId, errorPatterns, snippets, contexts,
          proc, det, sug, snp, sweep, faults, started, past>>

Calls == 1..MaxCalls

NoLog == [lookup |-> "none", api |-> 0, answer |-> "none", emitted |-> 0,
          write |-> "none"]

ProcIdle == [pc |-> "idle", text |-> <<>>, language |-> None, app |-> "",
             ctxId |-> 0]
DetIdle == [pc |-> "idle", idx |-> 0, errorText |-> <<>>, sol |-> <<>>,
            existing |-> <<>>, found |-> <<>>,
            log |-> [k \in 1..NumPatterns |-> NoLog]]
SugIdle == [pc |-> "idle", result |-> <<>>, api |-> 0, content |-> <<>>]
SnpIdle == [pc |-> "idle", defined |-> FALSE, result |-> <<>>, exact |-> <<>>,
            embedded |-> FALSE, fetchedAll |-> FALSE, scored |-> 0]
SweepIdle == [pc |-> "idle", cutoff |-> 0, days |-> 0, seenSnippets |-> {},
              seenContexts |-> {}]

Init ==
  /\ now = 0
  /\ nextId = 1
  /\ nextCtxId = 1
  /\ errorPatterns = <<>>
  /\ snippets = <<>>
  /\ contexts = <<>>
  /\ proc = [c \in Calls |-> ProcIdle]
  /\ det = [c \in Calls |-> DetIdle]
  /\ sug = [c \in Calls |-> SugIdle]
  /\ snp = [c \in Calls |-> SnpIdle]
  /\ sweep = SweepIdle
  /\ faults = 0
  /\ started = 0
  /\ past = <<>>

\* a storage operation rejects (SQLITE_BUSY, I/O error, ...)
StorageFails == faults < MaxFaults /\ faults' = faults + 1

\* ------------------------------------------------------------ detectErrors
\* the for loop from signature k on, up to its next await or its return
DetContinue(d, text, language, k) ==
  LET n == NextCandidate(text, k)
      base == [d EXCEPT !.idx = n, !.sol = <<>>, !.existing = <<>>]
  IN IF n > NumPatterns THEN [base EXCEPT !.pc = "done", !.errorText = <<>>]
     ELSE IF Truthy(language)
          THEN [base EXCEPT !.pc = "lookup", !.errorText = MatchText(n, text)]
          ELSE [base EXCEPT !.pc = "api", !.errorText = MatchText(n, text),
                            !.log[n].lookup = "skipped"]

\* foundErrors.push({error, solution}) for each row
RECURSIVE Pairs(_, _)
Pairs(errorText, rows) ==
  IF rows = <<>> THEN <<>>
  ELSE <<[error |-> errorText, solution |-> Head(rows).solution]>>
         \o Pairs(errorText, Tail(rows))

\* a rejection inside detectErrors: nothing catches it, Promise.all rejects
\* and processCodeContent throws; the other two branches go on
DetThrows(c) ==
  /\ det' = [det EXCEPT ![c].pc = "thrown"]
  /\ proc' = [proc EXCEPT ![c].pc = IF @ = "analysis" THEN "thrown" ELSE @]

\* await getErrorSolutions(errorText, language), and what follows it
DetLookup(c) ==
  /\ det[c].pc = "lookup"
  /\ \/ /\ StorageFails
        /\ DetThrows(c)
     \/ /\ \E sols \in GetErrorSolutions(errorPatterns, det[c].errorText,
                                         proc[c].language) :
             det' = [det EXCEPT ![c] =
               IF Len(sols) > 0
               THEN DetContinue(
                      [det[c] EXCEPT
                         !.found = @ \o Pairs(det[c].errorText, sols),
                         !.log[det[c].idx].lookup = "hit",
                         !.log[det[c].idx].emitted = Len(sols)],
                      proc[c].text, proc[c].language, det[c].idx + 1)
               ELSE [det[c] EXCEPT !.pc = "api",
                                   !.log[det[c].idx].lookup = "miss"]]
        /\ UNCHANGED <<proc, faults>>
  /\ UNCHANGED <<now, nextId, nextCtxId, errorPatterns, snippets, contexts,
                 sug, snp, sweep, started, past>>

\* mutant: without a solution the loop is left (a break for the continue)
DetApiBreaks(c, resp) ==
  /\ det[c].pc = "api"
  /\ LET sol == GenerateErrorSolution(resp)
         k == det[c].idx
         d == [det[c] EXCEPT !.log[k].api = @ + 1,
                             !.log[k].answer = IF sol # <<>> THEN "solution"
                                               ELSE "nothing"]
     IN det' = [det EXCEPT ![c] =
          IF sol # <<>>
          THEN LET e == [d EXCEPT
                           !.found = Append(@, [error |-> d.errorText,
                                                solution |-> sol]),
                           !.log[k].emitted = 1]
               IN IF Truthy(proc[c].language)
                  THEN [e EXCEPT !.pc = "rec_select", !.sol = sol]
                  ELSE DetContinue(e, proc[c].text, proc[c].language, k + 1)
          ELSE [d EXCEPT !.pc = "done"]]
  /\ UNCHANGED <<now, nextId, nextCtxId, errorPatterns, snippets, contexts,
                 proc, sug, snp, sweep, faults, started, past>>

\* await this.generateErrorSolution(errorText, language), and what follows it
DetApi(c, resp) ==
  /\ det[c].pc = "api"
  /\ LET sol == GenerateErrorSolution(resp)
         k == det[c].idx
         d == [det[c] EXCEPT !.log[k].api = @ + 1,
                             !.log[k].answer = IF sol # <<>> THEN "solution"
                                               ELSE "nothing"]
     IN det' = [det EXCEPT ![c] =
          IF sol # <<>>
          THEN LET e == [d EXCEPT
                           !.found = Append(@, [error |-> d.errorText,
                                                solution |-> sol]),
                           !.log[k].emitted = 1]
               IN IF Truthy(proc[c].language)
                  THEN [e EXCEPT !.pc = "rec_select", !.sol = sol]
                  ELSE DetContinue(e, proc[c].text, proc[c].language, k + 1)
          ELSE DetContinue(d, proc[c].text, proc[c].language, k + 1)]
  /\ UNCHANGED <<now, nextId, nextCtxId, errorPatterns, snippets, contexts,
                 proc, sug, snp, sweep, faults, started, past>>

\* recordError: the SELECT of a similar pattern
DetRecSelect(c) ==
  /\ det[c].pc = "rec_select"
  /\ \/ /\ StorageFails
        /\ DetThrows(c)
     \/ /\ \E ex \in SelectExisting(errorPatterns, det[c].errorText,
                                    proc[c].language) :
             det' = [det EXCEPT ![c].pc = "rec_write", ![c].existing = ex]
        /\ UNCHANGED <<proc, faults>>
  /\ UNCHANGED <<now, nextId, nextCtxId, errorPatterns, snippets, contexts,
                 sug, snp, sweep, started, past>>

\* recordError: the UPDATE of the pattern found or the INSERT of a new one,
\* and detectErrors' loop after it
DetRecWrite(c) ==
  /\ det[c].pc = "rec_write"
  /\ \/ /\ StorageFails
        /\ DetThrows(c)
        /\ UNCHANGED <<errorPatterns, nextId>>
     \/ /\ IF det[c].existing # <<>>
           THEN /\ errorPatterns' = UpdateError(errorPatterns, det[c].existing[1],
                                                det[c].sol, now)
                /\ UNCHANGED nextId
           ELSE /\ errorPatterns' = InsertError(errorPatterns, nextId,
                                                det[c].errorText, det[c].sol,
                                                proc[c].language, now)
                /\ nextId' = nextId + 1
        /\ det' = [det EXCEPT ![c] =
             DetContinue([det[c] EXCEPT !.log[det[c].idx].write =
                            IF det[c].existing # <<>> THEN "update" ELSE "insert"],
                         proc[c].text, proc[c].language, det[c].idx + 1)]
        /\ UNCHANGED <<proc, faults>>
  /\ UNCHANGED <<now, nextCtxId, snippets, contexts, sug, snp, sweep,
                 started, past>>

\* ----------------------------------------------------- generateSuggestions
\* a rejection inside the try block: the catch returns []
SugCaught(c) == sug' = [sug EXCEPT ![c].pc = "done", ![c].result = <<>>]

\* await getCurrentContext() (its value is not used afterwards)
SugContext(c) ==
  /\ sug[c].pc = "context"
  /\ \/ StorageFails /\ SugCaught(c)
     \/ sug' = [sug EXCEPT ![c].pc = "snippets"] /\ UNCHANGED faults
  /\ UNCHANGED <<now, nextId, nextCtxId, errorPatterns, snippets, contexts,
                 proc, det, snp, sweep, started, past>>

\* await getSnippets({language, limit: 3}): the rows only fill the prompt
SugSnippets(c) ==
  /\ sug[c].pc = "snippets"
  /\ \/ StorageFails /\ SugCaught(c)
     \/ sug' = [sug EXCEPT ![c].pc = "api"] /\ UNCHANGED faults
  /\ UNCHANGED <<now, nextId, nextCtxId, errorPatterns, snippets, contexts,
                 proc, det, snp, sweep, started, past>>

\* await this.openai.chat.completions.create(...), and the parse of its content
SugApi(c, resp) ==
  /\ sug[c].pc = "api"
  /\ sug' = [sug EXCEPT ![c].pc = "done", ![c].result = SuggestionsOf(resp),
                        ![c].api = @ + 1, ![c].content = resp.content]
  /\ UNCHANGED <<now, nextId, nextCtxId, errorPatterns, snippets, contexts,
                 proc, det, snp, sweep, faults, started, past>>

\* ---------------------------------------------------- findRelevantSnippets
\* a rejection inside the try block: the catch returns undefined
SnpCaught(c) ==
  snp' = [snp EXCEPT ![c].pc = "done", ![c].defined = FALSE, ![c].result = <<>>]

\* the searchTerm of the exact query
SearchTerm(text) == Substring0(Trim(text), SearchTermLen)

\* mutant: when no row matches, the code is saved as a snippet of its own
SnpExactSaves(c) ==
  /\ snp[c].pc = "exact"
  /\ \/ StorageFails /\ SnpCaught(c) /\ UNCHANGED <<snippets, nextId>>
     \/ /\ \E rows \in GetSnippets(snippets, proc[c].language,
                                   SearchTerm(proc[c].text), ExactMatchLimit) :
             /\ snp' = [snp EXCEPT ![c] =
                  IF Len(rows) > 0
                  THEN [@ EXCEPT !.pc = "done", !.defined = TRUE, !.result = rows,
                                 !.exact = rows]
                  ELSE [@ EXCEPT !.pc = "fallback", !.embedded = TRUE]]
             /\ IF Len(rows) > 0
                THEN UNCHANGED <<snippets, nextId>>
                ELSE /\ snippets' = InsertSnippet(snippets, nextId, proc[c].text,
                                                  proc[c].language, <<>>, now)
                     /\ nextId' = nextId + 1
        /\ UNCHANGED faults
  /\ UNCHANGED <<now, nextCtxId, errorPatterns, contexts,
                 proc, det, sug, sweep, started, past>>

\* await getSnippets({language, searchTerm, limit: 2}); on no row,
\* generateEmbedding(code) is called
SnpExact(c) ==
  /\ snp[c].pc = "exact"
  /\ \/ StorageFails /\ SnpCaught(c)
     \/ /\ \E rows \in GetSnippets(snippets, proc[c].language,
                                   SearchTerm(proc[c].text), ExactMatchLimit) :
             snp' = [snp EXCEPT ![c] =
               IF Len(rows) > 0
               THEN [@ EXCEPT !.pc = "done", !.defined = TRUE, !.result = rows,
                              !.exact = rows]
               ELSE [@ EXCEPT !.pc = "fallback", !.embedded = TRUE]]
        /\ UNCHANGED faults
  /\ UNCHANGED <<now, nextId, nextCtxId, errorPatterns, snippets, contexts,
                 proc, det, sug, sweep, started, past>>

\* every order sort((a, b) => b.score - a.score) can give: the scores are
\* Math.random()
RankedByScore(rows) ==
  LET n == Len(rows)
      orders == {p \in [1..n -> 1..n] : \A a, b \in 1..n : p[a] = p[b] => a = b}
  IN {[k \in 1..n |-> rows[p[k]]] : p \in orders}

\* mutant: the ranked rows are returned without slice(0, 2)
SnpFallbackUnsliced(c) ==
  /\ snp[c].pc = "fallback"
  /\ \/ StorageFails /\ SnpCaught(c)
     \/ /\ \E all \in GetSnippets(snippets, proc[c].language, <<>>, 0) :
           \E ranked \in RankedByScore(all) :
             snp' = [snp EXCEPT ![c].pc = "done", ![c].defined = TRUE,
                                ![c].result = ranked,
                                ![c].fetchedAll = TRUE, ![c].scored = Len(all)]
        /\ UNCHANGED faults
  /\ UNCHANGED <<now, nextId, nextCtxId, errorPatterns, snippets, contexts,
                 proc, det, sug, sweep, started, past>>

\* await getSnippets({language}), the scoring of every row, sort and slice(0, 2)
SnpFallback(c) ==
  /\ snp[c].pc = "fallback"
  /\ \/ StorageFails /\ SnpCaught(c)
     \/ /\ \E all \in GetSnippets(snippets, proc[c].language, <<>>, 0) :
           \E ranked \in RankedByScore(all) :
             snp' = [snp EXCEPT ![c].pc = "done", ![c].defined = TRUE,
                                ![c].result = Substring0(ranked, MaxRelevant),
                                ![c].fetchedAll = TRUE, ![c].scored = Len(all)]
        /\ UNCHANGED faults
  /\ UNCHANGED <<now, nextId, nextCtxId, errorPatterns, snippets, contexts,
                 proc, det, sug, sweep, started, past>>

\* ------------------------------------------------------ processCodeContent
\* no step of call c is pending: its frame is free for the next call
Settled(c) ==
  /\ proc[c].pc \in {"idle", "returned", "thrown"}
  /\ det[c].pc \in {"idle", "done", "thrown"}
  /\ sug[c].pc \in {"idle", "done"}
  /\ snp[c].pc \in {"idle", "done"}

\* the call, in the first free frame: updateDeveloperContext(...) is awaited first
ProcessCodeContent(c, text, language, app) ==
  /\ started < MaxCalls
  /\ Settled(c)
  /\ \A b \in 1..(c - 1) : ~Settled(b)
  /\ started' = started + 1
  /\ past' = IF proc[c].pc = "idle" THEN past
             ELSE Append(past, [text |-> proc[c].text,
                                language |-> proc[c].language,
                                pc |-> proc[c].pc,
                                errors |-> det[c].found])
  /\ proc' = [proc EXCEPT ![c] = [pc |-> "ctx", text |-> text,
                                  language |-> language, app |-> app,
                                  ctxId |-> 0]]
  /\ det' = [det EXCEPT ![c] = DetIdle]
  /\ sug' = [sug EXCEPT ![c] = SugIdle]
  /\ snp' = [snp EXCEPT ![c] = SnpIdle]
  /\ UNCHANGED <<now, nextId, nextCtxId, errorPatterns, snippets, contexts,
                 sweep, faults>>

\* findRelevantSnippets up to its first await
SnpEnter(text) ==
  IF Trim(text) = <<>> THEN [SnpIdle EXCEPT !.pc = "done"]
  ELSE [SnpIdle EXCEPT !.pc = "exact"]

\* mutant: a rejected context write is swallowed and the analysis starts
UpdateContextSwallowed(c) ==
  /\ proc[c].pc = "ctx"
  /\ \/ /\ StorageFails
        /\ UNCHANGED <<contexts, nextCtxId>>
        /\ proc' = [proc EXCEPT ![c].pc = "analysis"]
     \/ /\ contexts' = InsertContext(contexts, nextCtxId, proc[c].app, None, now)
        /\ nextCtxId' = nextCtxId + 1
        /\ proc' = [proc EXCEPT ![c].pc = "analysis", ![c].ctxId = nextCtxId]
        /\ UNCHANGED faults
  /\ det' = [det EXCEPT ![c] =
               DetContinue(DetIdle, proc[c].text, proc[c].language, 1)]
  /\ sug' = [sug EXCEPT ![c].pc = "context"]
  /\ snp' = [snp EXCEPT ![c] = SnpEnter(proc[c].text)]
  /\ UNCHANGED <<now, nextId, errorPatterns, snippets, sweep, started, past>>

\* updateDeveloperContext's INSERT; a rejection leaves processCodeContent;
\* otherwise Promise.all starts the three branches
UpdateContext(c) ==
  /\ proc[c].pc = "ctx"
  /\ \/ /\ StorageFails
        /\ proc' = [proc EXCEPT ![c].pc = "thrown"]
        /\ UNCHANGED <<contexts, nextCtxId, det, sug, snp>>
     \/ /\ contexts' = InsertContext(contexts, nextCtxId, proc[c].app, None, now)
        /\ nextCtxId' = nextCtxId + 1
        /\ proc' = [proc EXCEPT ![c].pc = "analysis", ![c].ctxId = nextCtxId]
        /\ det' = [det EXCEPT ![c] =
                     DetContinue(DetIdle, proc[c].text, proc[c].language, 1)]
        /\ sug' = [sug EXCEPT ![c].pc = "context"]
        /\ snp' = [snp EXCEPT ![c] = SnpEnter(proc[c].text)]
        /\ UNCHANGED faults
  /\ UNCHANGED <<now, nextId, errorPatterns, snippets, sweep, started, past>>

\* Promise.all resolves: the merged result is returned
Return(c) ==
  /\ proc[c].pc = "analysis"
  /\ det[c].pc = "done" /\ sug[c].pc = "done" /\ snp[c].pc = "done"
  /\ proc' = [proc EXCEPT ![c].pc = "returned"]
  /\ UNCHANGED <<now, nextId, nextCtxId, errorPatterns, snippets, contexts,
                 det, sug, snp, sweep, faults, started, past>>

\* the value processCodeContent returns
Suggestions(c) == sug[c].result
Errors(c) == det[c].found
ErrorsDefined(c) == Len(det[c].found) > 0
SnippetsDefined(c) == snp[c].defined
Snippets(c) == snp[c].result

\* ------------------------------------------------- the rest of the program
\* saveSnippet
SaveSnippet(content, language, tags) ==
  /\ Len(snippets) < MaxSnippets
  /\ snippets' = InsertSnippet(snippets, nextId, content, language, tags, now)
  /\ nextId' = nextId + 1
  /\ UNCHANGED <<now, nextCtxId, errorPatterns, contexts, proc, det, sug, snp,
                 sweep, faults, started, past>>

RowIds(table) == {table[i].id : i \in DOMAIN table}

\* cleanupOldData(daysToKeep) up to its first DELETE
CleanupOldData(daysToKeep) ==
  /\ sweep.pc \in {"idle", "done", "thrown"}
  /\ sweep' = [pc |-> "snippets", cutoff |-> CutoffDate(now, daysToKeep),
               days |-> daysToKeep, seenSnippets |-> RowIds(snippets),
               seenContexts |-> RowIds(contexts)]
  /\ UNCHANGED <<now, nextId, nextCtxId, errorPatterns, snippets, contexts,
                 proc, det, sug, snp, faults, started, past>>

\* DELETE FROM snippets WHERE timestamp < ?
SweepSnippets ==
  /\ sweep.pc = "snippets"
  /\ \/ /\ StorageFails
        /\ sweep' = [sweep EXCEPT !.pc = "thrown"]
        /\ UNCHANGED snippets
     \/ /\ snippets' = DeleteOlder(snippets, "timestamp", sweep.cutoff)
        /\ sweep' = [sweep EXCEPT !.pc = "contexts"]
        /\ UNCHANGED faults
  /\ UNCHANGED <<now, nextId, nextCtxId, errorPatterns, contexts, proc, det,
                 sug, snp, started, past>>

\* mutant: the second DELETE names error_patterns
SweepContextsWrongTable ==
  /\ sweep.pc = "contexts"
  /\ \/ /\ StorageFails
        /\ sweep' = [sweep EXCEPT !.pc = "thrown"]
        /\ UNCHANGED errorPatterns
     \/ /\ errorPatterns' = DeleteOlder(errorPatterns, "lastEncountered", sweep.cutoff)
        /\ sweep' = [sweep EXCEPT !.pc = "done"]
        /\ UNCHANGED faults
  /\ UNCHANGED <<now, nextId, nextCtxId, contexts, snippets, proc, det,
                 sug, snp, started, past>>

\* DELETE FROM developer_context WHERE lastActivity < ?
SweepContexts ==
  /\ sweep.pc = "contexts"
  /\ \/ /\ StorageFails
        /\ sweep' = [sweep EXCEPT !.pc = "thrown"]
        /\ UNCHANGED contexts
     \/ /\ contexts' = DeleteOlder(contexts, "lastActivity", sweep.cutoff)
        /\ sweep' = [sweep EXCEPT !.pc = "done"]
        /\ UNCHANGED faults
  /\ UNCHANGED <<now, nextId, nextCtxId, errorPatterns, snippets, proc, det,
                 sug, snp, started, past>>

\* recordError called on its own before the calls start: the SELECT and the
\* UPDATE or INSERT it leads to, with nothing in between
RecordError(errorText, solution, language) ==
  /\ started = 0
  /\ \E ex \in SelectExisting(errorPatterns, errorText, language) :
       IF ex # <<>>
       THEN /\ ex[1].frequency < MaxFrequency
            /\ errorPatterns' = UpdateError(errorPatterns, ex[1], solution, now)
            /\ UNCHANGED nextId
       ELSE /\ Len(errorPatterns) < MaxPatterns
            /\ errorPatterns' = InsertError(errorPatterns, nextId, errorText,
                                            solution, language, now)
            /\ nextId' = nextId + 1
  /\ UNCHANGED <<now, nextCtxId, snippets, contexts, proc, det, sug, snp,
                 sweep, faults, started, past>>

\* a millisecond passes
Tick ==
  /\ now < MaxTime
  /\ now' = now + 1
  /\ UNCHANGED <<nextId, nextCtxId, errorPatterns, snippets, contexts, proc,
                 det, sug, snp, sweep, faults, started, past>>

\* ------------------------------------------------------------------ inputs
Repeat(ch, n) == [i \in 1..n |-> ch]

TextEmpty == <<>>
\* the coded signature alone
TextCoded == <<"E","1",":","y">>
\* the generic signature matches "Error: x", the typed one "TypeError: x"
TextTyped == <<"T","y","p","e","E","r","r","o","r",":"," ","x">>
\* two coded errors of 51 characters with the same first 50
TextLongB == <<"E","1",":">> \o Repeat("a", RecordPrefixLen - 3) \o <<"b">>
TextLongC == <<"E","1",":">> \o Repeat("a", RecordPrefixLen - 3) \o <<"c">>

Languages == {None, "js"}

ErrorResponses ==
  {ApiThrow, ApiText(<<>>), ApiText(<<" ">>), ApiText(<<"f">>), ApiText(<<" ", "g">>)}

SuggestionResponses ==
  {ApiThrow, ApiText(<<>>), ApiText(<<"-"," ","a","\n","b","\n","-","c">>)}

\* ---------------------------------------------------------- specifications
\* one step of call c after its start
Step(c, errorResponses, suggestionResponses) ==
  \/ UpdateContext(c)
  \/ DetLookup(c)
  \/ \E resp \in errorResponses : DetApi(c, resp)
  \/ DetRecSelect(c)
  \/ DetRecWrite(c)
  \/ SugContext(c)
  \/ SugSnippets(c)
  \/ \E resp \in suggestionResponses : SugApi(c, resp)
  \/ SnpExact(c)
  \/ SnpFallback(c)
  \/ Return(c)

\* the caller awaits each call before the next (as monitorScreenActivity's loop)
Successive == \A b \in Calls : proc[b].pc \in {"idle", "returned"}

SuccessiveTexts == {TextEmpty, TextTyped, TextLongB, TextLongC}

SuccessiveCall ==
  \E c \in Calls, text \in SuccessiveTexts, language \in Languages :
    Successive /\ ProcessCodeContent(c, text, language, "x")

Next ==
  \/ Tick
  \/ SuccessiveCall
  \/ \E c \in Calls : Step(c, ErrorResponses, SuggestionResponses)

Spec == Init /\ [][Next]_vars

\* calls may overlap (several callers of the one AIHelper and store)
OverlappingTexts == {TextCoded}
OverlappingErrorResponses == {ApiThrow, ApiText(<<"f">>), ApiText(<<" ", "g">>)}
OverlappingSuggestionResponses == {ApiText(<<"-", " ", "a">>)}

OverlappingCall ==
  \E c \in Calls, text \in OverlappingTexts :
    ProcessCodeContent(c, text, "js", "x")

NextOverlapping ==
  \/ Tick
  \/ OverlappingCall
  \/ \E c \in Calls : Step(c, OverlappingErrorResponses, OverlappingSuggestionResponses)

SpecOverlapping == Init /\ [][NextOverlapping]_vars

\* the snippet store in use: snippets saved between successive calls
SnippetContents == {<<"a", "b">>, <<"b">>}
SnippetLanguages == {"js", "py"}
SnippetTexts == {<<" ", "b", " ">>, <<"z">>}

SnippetSave ==
  \E content \in SnippetContents, language \in SnippetLanguages :
    SaveSnippet(content, language, IF content = <<"b">> THEN <<>> ELSE <<<<"z">>>>)

SnippetCall ==
  \E c \in Calls, text \in SnippetTexts, language \in Languages :
    Successive /\ ProcessCodeContent(c, text, language, "x")

NextSnippets ==
  \/ Tick
  \/ SnippetSave
  \/ SnippetCall
  \/ \E c \in Calls :
       \/ UpdateContext(c)
       \/ SugContext(c)
       \/ SugSnippets(c)
       \/ SugApi(c, ApiThrow)
       \/ SnpExact(c)
       \/ SnpFallback(c)
       \/ Return(c)

SpecSnippets == Init /\ [][NextSnippets]_vars

\* the retention sweep beside saves and calls
SweepCall ==
  \E c \in Calls : Successive /\ ProcessCodeContent(c, TextCoded, "js", "")

NextSweep ==
  \/ Tick
  \/ SaveSnippet(<<"b">>, "py", <<>>)
  \/ SweepCall
  \/ \E daysToKeep \in {0, 1} : CleanupOldData(daysToKeep)
  \/ SweepSnippets
  \/ SweepContexts
  \/ \E c \in Calls : Step(c, {ApiText(<<"f">>)}, {ApiThrow})

SpecSweep == Init /\ [][NextSweep]_vars

\* every response text of at most MaxContent characters to generateSuggestions
ContentChars == {"-", Bullet, " ", "a", "\n"}
Contents == UNION {[1..n -> ContentChars] : n \in 0..MaxContent}

NextParse ==
  \/ ProcessCodeContent(1, TextEmpty, None, "x")
  \/ UpdateContext(1)
  \/ SugContext(1)
  \/ SugSnippets(1)
  \/ sug[1].pc = "api" /\ \E content \in Contents : SugApi(1, ApiText(content))
  \/ Return(1)

SpecParse == Init /\ [][NextParse]_vars

\* monitorScreenActivity: each screen event's text is lower-cased and handed to
\* processCodeContent with the source application alone (no language, no file);
\* the loop awaits each call, and ends when one throws.  The events carry no
\* app_name here: event.data.app_name?.toLowerCase() || "" is then "".
ScreenTexts == {TextEmpty, TextTyped, TextCoded}

MonitorScreenActivity ==
  \E c \in Calls, text \in ScreenTexts :
    Successive /\ ProcessCodeContent(c, ToLowerCase(text), None, "")

RouteErrorResponses == {ApiThrow, ApiText(<<"f">>)}
RouteSuggestionResponses == {ApiThrow, ApiText(<<"-", "a">>)}

NextRoute ==
  \/ Tick
  \/ MonitorScreenActivity
  \/ \E c \in Calls :
       \/ UpdateContext(c)
       \/ \E resp \in RouteErrorResponses : DetApi(c, resp)
       \/ SugContext(c)
       \/ SugSnippets(c)
       \/ \E resp \in RouteSuggestionResponses : SugApi(c, resp)
       \/ SnpExact(c)
       \/ SnpFallback(c)
       \/ Return(c)

SpecRoute == Init /\ [][NextRoute]_vars

\* one call at a time, its three branches interleaved in every way, with the
\* completion API a function of its prompt; the snippets are saved beforehand
TextChained == <<"e","r","r","o","r",":"," ","E","1",":","y">>

BranchTexts == {TextTyped, TextChained, TextCoded}

AnswerFor(errorText) ==
  IF errorText = TextTyped THEN ApiThrow ELSE ApiText(<<"f">>)

SuggestFor(text) ==
  IF text = TextCoded THEN ApiThrow ELSE ApiText(<<"-", " ", "a">>)

BranchSave ==
  /\ started = 0
  /\ \E content \in {TextCoded, <<"b">>} : SaveSnippet(content, "js", <<>>)

BranchCall ==
  \E c \in Calls, text \in BranchTexts :
    Successive /\ ProcessCodeContent(c, text, "js", "x")

NextBranches ==
  \/ BranchSave
  \/ BranchCall
  \/ \E c \in Calls :
       \/ UpdateContext(c)
       \/ DetLookup(c)
       \/ DetApi(c, AnswerFor(det[c].errorText))
       \/ DetRecSelect(c)
       \/ DetRecWrite(c)
       \/ SugContext(c)
       \/ SugSnippets(c)
       \/ SugApi(c, SuggestFor(proc[c].text))
       \/ SnpExact(c)
       \/ SnpFallback(c)
       \/ Return(c)

SpecBranches == Init /\ [][NextBranches]_vars

\* a call on a cache that earlier recordings filled: coded errors "E1:a",
\* "E1:b", ..., each with a solution of its own, some recorded twice; the call's
\* text "E1:" is part of every one of them
SeedLetters == <<"a", "b", "c", "d", "e", "f", "g">>

SeedText(i) == <<"E", "1", ":", SeedLetters[i]>>

TextCodedBare == <<"E", "1", ":">>

CacheTexts == {TextCodedBare, SeedText(1)}

CacheSeed ==
  \E i \in 1..Len(SeedLetters) :
    /\ i <= Len(errorPatterns) + 1
    /\ RecordError(SeedText(i), <<SeedLetters[i]>>, "js")

CacheCall ==
  \E c \in Calls, text \in CacheTexts :
    started = 0 /\ ProcessCodeContent(c, text, "js", "x")

NextCache ==
  \/ CacheSeed
  \/ CacheCall
  \/ \E c \in Calls :
       \/ UpdateContext(c)
       \/ DetLookup(c)
       \/ DetApi(c, ApiText(<<"s">>))
       \/ DetRecSelect(c)
       \/ DetRecWrite(c)
       \/ SugContext(c)
       \/ SugSnippets(c)
       \/ SugApi(c, ApiThrow)
       \/ SnpExact(c)
       \/ SnpFallback(c)
       \/ Return(c)

SpecCache == Init /\ [][NextCache]_vars

\* ================================================================== claims
\* the candidate of signature k in call c has been dealt with
Finished(c, k) ==
  /\ det[c].log[k].lookup # "none"
  /\ det[c].idx > k \/ det[c].pc = "done"

\* call c's recordError write lands in this step
Writes(c) == det[c].pc = "rec_write" /\ det'[c].pc \notin {"rec_write", "thrown"}

\* the rows of a table before a step are its first rows after it, unchanged
Kept(before, after) ==
  /\ Len(after) >= Len(before)
  /\ \A i \in DOMAIN before : after[i] = before[i]

\* ---- C1
\* C1 as stated: for a candidate whose cache lookup returned nothing, the
\* completion API is called exactly once, and when it gives a solution the
\* store gains exactly one new record with frequency 1, no existing record
\* being modified instead.
C1_ApiOnce ==
  \A c \in Calls : \A k \in 1..NumPatterns :
    /\ det[c].log[k].api <= 1
    /\ det[c].log[k].lookup = "miss" /\ (Finished(c, k) \/ det[c].sol # <<>>)
         => det[c].log[k].api = 1

C1_Original ==
  [][\A c \in Calls :
       Writes(c) =>
         /\ Len(errorPatterns') = Len(errorPatterns) + 1
         /\ Kept(errorPatterns, errorPatterns')
         /\ errorPatterns'[Len(errorPatterns')].frequency = 1]_vars

\* C1 as amended: the API is called exactly once for such a candidate; with a
\* solution (non-empty once trimmed) recordError writes once: if its own check
\* (first 50 characters, same language) found no record, exactly one new
\* record with frequency 1 is added and no record is modified; if it found
\* one, that record alone is updated (frequency + 1, solution replaced) and
\* no record is added.
C1_WriteEffect ==
  \A c \in Calls :
    Writes(c) =>
      IF det[c].existing = <<>>
      THEN /\ Len(errorPatterns') = Len(errorPatterns) + 1
           /\ Kept(errorPatterns, errorPatterns')
           /\ LET r == errorPatterns'[Len(errorPatterns')]
              IN /\ r.frequency = 1
                 /\ r.errorText = det[c].errorText
                 /\ r.language = proc[c].language
                 /\ r.solution = det[c].sol
                 /\ r.id \notin RowIds(errorPatterns)
      ELSE /\ Len(errorPatterns') = Len(errorPatterns)
           /\ \A i \in DOMAIN errorPatterns :
                IF errorPatterns[i].id = det[c].existing[1].id
                THEN /\ errorPatterns'[i].frequency = det[c].existing[1].frequency + 1
                     /\ errorPatterns'[i].solution = det[c].sol
                     /\ errorPatterns'[i].errorText = errorPatterns[i].errorText
                ELSE errorPatterns'[i] = errorPatterns[i]

C1_Written ==
  \A c \in Calls : \A k \in 1..NumPatterns :
    Finished(c, k) /\ det[c].log[k].lookup = "miss"
      => (det[c].log[k].write # "none" <=> det[c].log[k].answer = "solution")

C1_Amended == [](C1_ApiOnce /\ C1_Written) /\ [][C1_WriteEffect]_vars

\* a candidate missed the cache, the API was asked once and the record was
\* updated in place; and one whose record was inserted
C1_Witness ==
  \E c \in Calls : \E k \in 1..NumPatterns :
    /\ Finished(c, k)
    /\ det[c].log[k].lookup = "miss"
    /\ det[c].log[k].api = 1
    /\ det[c].log[k].write = "update"
    /\ \E i \in DOMAIN errorPatterns : errorPatterns[i].frequency = 2

\* ---- C2
\* the signatures that match a text
Candidates(text) == {k \in 1..NumPatterns : Matches(k, text)}

\* the rows of the cache for exactly this error text and language
RowsFor(errorText, language) ==
  {i \in DOMAIN errorPatterns :
     errorPatterns[i].errorText = errorText /\ errorPatterns[i].language = language}

\* call c is the second of two successive calls with the same text and
\* language, the first of which started on the empty cache and solved and
\* recorded every error it found
SecondObservation(c) ==
  /\ started = 2 /\ Len(past) = 1
  /\ proc[c].pc = "returned"
  /\ Truthy(proc[c].language)
  /\ past[1].pc = "returned"
  /\ past[1].text = proc[c].text /\ past[1].language = proc[c].language
  /\ Candidates(proc[c].text) # {}
  /\ Len(past[1].errors) = Cardinality(Candidates(proc[c].text))

\* C2: the same error text and language observed by two successive calls
\* starting from an empty cache leave exactly one record for it, with
\* frequency 2 and lastEncountered at the second observation.
C2_SecondObservationCounted ==
  \A c \in Calls :
    SecondObservation(c) =>
      \A k \in Candidates(proc[c].text) :
        LET rows == RowsFor(MatchText(k, proc[c].text), proc[c].language)
        IN /\ Cardinality(rows) = 1
           /\ \A i \in rows :
                /\ errorPatterns[i].frequency = 2
                /\ \A j \in DOMAIN contexts :
                     contexts[j].id = proc[c].ctxId
                       => errorPatterns[i].lastEncountered >= contexts[j].lastActivity

\* ---- C4
\* C4: once the Context Updater has succeeded, a storage failure in any of
\* the three branches never makes processCodeContent throw.
C4_BranchFailureSwallowed ==
  \A c \in Calls : proc[c].ctxId # 0 => proc[c].pc # "thrown"

\* ---- C5
\* C5: the context append completes before any branch starts; if it fails the
\* failure reaches the caller and no branch runs (no API call, no cache read
\* or write).
C5_ContextFirst ==
  \A c \in Calls :
    /\ (det[c].pc # "idle" \/ sug[c].pc # "idle" \/ snp[c].pc # "idle")
         => /\ proc[c].ctxId # 0
            /\ \E i \in DOMAIN contexts : contexts[i].id = proc[c].ctxId
    /\ proc[c].pc \in {"analysis", "returned"} => proc[c].ctxId # 0
    /\ proc[c].ctxId = 0
         => det[c] = DetIdle /\ sug[c] = SugIdle /\ snp[c] = SnpIdle

\* the context write failed and the call threw
C5_Witness ==
  \E c \in Calls : proc[c].pc = "thrown" /\ proc[c].ctxId = 0 /\ faults > 0

\* ---- C6
\* the signatures are dealt with in their order: those before the current one
\* that match have been looked at, those after it not yet
InOrder(c) ==
  det[c].pc # "idle" =>
    \A k \in 1..NumPatterns :
      /\ k < det[c].idx =>
           (Matches(k, proc[c].text) <=> det[c].log[k].lookup # "none")
      /\ k > det[c].idx => det[c].log[k] = NoLog

\* C6: when the API throws or answers nothing for an uncached candidate, no
\* pair is emitted for it, nothing is written, the API is not asked again,
\* and the remaining signatures are still evaluated in order.
C6_ApiFailureSkips ==
  \A c \in Calls :
    /\ InOrder(c)
    /\ det[c].pc = "done" =>
         \A k \in Candidates(proc[c].text) : det[c].log[k].lookup # "none"
    /\ \A k \in 1..NumPatterns :
         det[c].log[k].answer = "nothing" =>
           /\ det[c].log[k].api = 1
           /\ det[c].log[k].emitted = 0
           /\ det[c].log[k].write = "none"
           /\ \A i \in DOMAIN det[c].found :
                det[c].found[i].error # MatchText(k, proc[c].text)
           /\ det[c].idx > k
           /\ det[c].pc \in {"lookup", "api", "rec_select", "rec_write", "done"}
                \/ (det[c].pc = "thrown" /\ faults > 0)

\* the first candidate's API call failed; the second was evaluated and solved
C6_Witness ==
  \E c \in Calls :
    /\ det[c].pc = "done"
    /\ det[c].log[1].answer = "nothing"
    /\ det[c].log[2].answer = "solution"
    /\ Len(det[c].found) = 1

\* ---- C7
\* C7: process("", {sourceApp: "x"}) returns suggestions = [], errors =
\* undefined and snippets = undefined, whatever the store and the API answer.
C7_EmptyInput ==
  \A c \in Calls :
    /\ proc[c].pc = "returned"
    /\ proc[c].text = TextEmpty /\ proc[c].language = None /\ proc[c].app = "x"
    => /\ Suggestions(c) = <<>>
       /\ ~ErrorsDefined(c)
       /\ ~SnippetsDefined(c)

\* ---- C3
\* C3 as stated: overlapping calls with the same error text and language never
\* create a second record for it, and its frequency stays between 1 and the
\* number of observations.
C3_Original ==
  /\ \A i, j \in DOMAIN errorPatterns :
       /\ errorPatterns[i].errorText = errorPatterns[j].errorText
       /\ errorPatterns[i].language = errorPatterns[j].language
       => i = j
  /\ \A i \in DOMAIN errorPatterns :
       errorPatterns[i].frequency >= 1 /\ errorPatterns[i].frequency <= started

\* C3 as amended: overlapping calls can create a second record for the same
\* (language, error text), when both existence checks run before either
\* insert; but there are never more records for it than observations, and
\* every recorded frequency stays between 1 and the number of observations.
C3_Amended ==
  \A i \in DOMAIN errorPatterns :
    /\ errorPatterns[i].frequency >= 1
    /\ errorPatterns[i].frequency <= started
    /\ Cardinality(RowsFor(errorPatterns[i].errorText, errorPatterns[i].language))
         <= started

\* both overlapping calls have written: one record counted twice
C3_Witness ==
  /\ \A c \in Calls : \E k \in 1..NumPatterns : det[c].log[k].write # "none"
  /\ \E i \in DOMAIN errorPatterns : errorPatterns[i].frequency = 2

\* ---- C8
\* C8 as stated: generateSuggestions returns at most 3 entries and none begins
\* with a bullet marker.
C8_Original ==
  \A c \in Calls :
    sug[c].pc = "done" =>
      /\ Len(sug[c].result) <= MaxSuggestions
      /\ \A i \in DOMAIN sug[c].result :
           sug[c].result[i] # <<>> => sug[c].result[i][1] \notin BulletChars

\* a line of the text starts with a marker that, after optional white space of
\* the line, is followed by another marker
DoubleMarker(content) ==
  \E i, j \in DOMAIN content :
    /\ i < j
    /\ i = 1 \/ content[i - 1] = "\n"
    /\ content[i] \in BulletChars /\ content[j] \in BulletChars
    /\ \A m \in (i + 1)..(j - 1) : IsSpace(content[m]) /\ content[m] # "\n"

\* C8 as amended: at most 3 entries, none beginning with white space; one
\* marker is stripped, so an entry begins with a bullet marker only when its
\* line carried a second marker after the first ("--a" gives "-a").
C8_Amended ==
  \A c \in Calls :
    sug[c].pc = "done" =>
      /\ Len(sug[c].result) <= MaxSuggestions
      /\ \A i \in DOMAIN sug[c].result :
           sug[c].result[i] # <<>> =>
             /\ ~IsSpace(sug[c].result[i][1])
             /\ sug[c].result[i][1] \in BulletChars => DoubleMarker(sug[c].content)

\* a response of four bullet lines, of which three entries are returned
C8_Witness ==
  \E c \in Calls :
    /\ sug[c].pc = "done"
    /\ Len(sug[c].content) = 7
    /\ \A i \in {1, 3, 5, 7} : sug[c].content[i] \in BulletChars
    /\ \A i \in {2, 4, 6} : sug[c].content[i] = "\n"
    /\ Len(sug[c].result) = MaxSuggestions

\* ---- C9
\* C9: findRelevantSnippets returns at most 2 snippets; when the exact query
\* returns a row, those rows are returned as the store holds them and the
\* fallback (embedding, fetch of all rows, scoring) is not invoked.
C9_SnippetMatcher ==
  \A c \in Calls :
    snp[c].pc = "done" =>
      /\ Len(snp[c].result) <= MaxRelevant
      /\ \A i, j \in DOMAIN snp[c].result :
           snp[c].result[i].id = snp[c].result[j].id => i = j
      /\ snp[c].exact # <<>> =>
           /\ snp[c].defined
           /\ snp[c].result = snp[c].exact
           /\ ~snp[c].embedded /\ ~snp[c].fetchedAll /\ snp[c].scored = 0
           /\ \A i \in DOMAIN snp[c].result :
                \E r \in SnippetRows(snippets, proc[c].language,
                                     SearchTerm(proc[c].text)) :
                  snp[c].result[i] = SnippetOf(snippets[r])
      /\ snp[c].embedded =>
           \A i \in DOMAIN snp[c].result :
             \E r \in SnippetRows(snippets, proc[c].language, <<>>) :
               snp[c].result[i] = SnippetOf(snippets[r])

\* three rows match the exact query and two of them are returned
C9_Witness ==
  \E c \in Calls :
    /\ snp[c].pc = "done"
    /\ snp[c].exact # <<>>
    /\ Len(snp[c].result) = 2
    /\ Cardinality(SnippetRows(snippets, proc[c].language,
                               SearchTerm(proc[c].text))) = 3

\* ---- C10
\* C10 as stated: cleanupOldData(0) deletes every snippet row and every
\* context row present when it is called, and leaves the error patterns.
C10_Original ==
  sweep.pc = "done" /\ sweep.days = 0 =>
    /\ RowIds(snippets) \cap sweep.seenSnippets = {}
    /\ RowIds(contexts) \cap sweep.seenContexts = {}

C10_OlderRowsGone ==
  sweep.days = 0 =>
    /\ sweep.pc \in {"contexts", "done"} =>
         \A i \in DOMAIN snippets :
           snippets[i].id \in sweep.seenSnippets
             => snippets[i].timestamp >= sweep.cutoff
    /\ sweep.pc = "done" =>
         \A i \in DOMAIN contexts :
           contexts[i].id \in sweep.seenContexts
             => contexts[i].lastActivity >= sweep.cutoff

\* C10 as amended: cleanupOldData(0) deletes every snippet row and every
\* context row stamped before the millisecond of the call (a row stamped in
\* that same millisecond stays), and leaves the error patterns unchanged.
C10_Amended ==
  /\ [] C10_OlderRowsGone
  /\ [][sweep' # sweep => errorPatterns' = errorPatterns]_vars

\* a sweep with daysToKeep = 0 that found and deleted snippet and context
\* rows beside a recorded error pattern
C10_Witness ==
  /\ sweep.pc = "done" /\ sweep.days = 0
  /\ errorPatterns # <<>>
  /\ sweep.seenSnippets # {} /\ sweep.seenContexts # {}
  /\ snippets = <<>> /\ contexts = <<>>

\* ---- C11
\* the screen texts whose lower-cased form call c was given
ScreenTextsOf(c) == {text \in ScreenTexts : ToLowerCase(text) = proc[c].text}

\* C11: for an input text containing "TypeError: x" the Error Detector's
\* result has an entry whose error is the substring the typed-exception
\* signature matches (its lower-cased form is accepted too).  Stated for the
\* calls in which the completion API answered every candidate and nothing
\* threw, where it fails all the same.
C11_TypedErrorReported ==
  \A c \in Calls :
    /\ proc[c].pc = "returned"
    /\ \A k \in 1..NumPatterns : det[c].log[k].answer # "nothing"
    => \A text \in ScreenTextsOf(c) :
         Matches(2, text) =>
           \E i \in DOMAIN det[c].found :
             \/ det[c].found[i].error = MatchText(2, text)
             \/ det[c].found[i].error = ToLowerCase(MatchText(2, text))

\* ---- C12
\* what recordError can leave in the cache
Recorded(table, errorText, solution, language) ==
  {IF ex = <<>>
   THEN InsertError(table, Len(table) + 1, errorText, solution, language, 0)
   ELSE UpdateError(table, ex[1], solution, 0) :
     ex \in SelectExisting(table, errorText, language)}

RECURSIVE SequentialErrors(_, _, _, _)
\* the results detectErrors can give from signature k on when it runs alone on
\* the cache `table`, the API answering AnswerFor
SequentialErrors(text, language, table, k) ==
  LET n == NextCandidate(text, k)
  IN IF n > NumPatterns THEN {<<>>}
     ELSE LET e == MatchText(n, text)
              sol == GenerateErrorSolution(AnswerFor(e))
          IN UNION {
               IF Len(rows) > 0
               THEN {Pairs(e, rows) \o rest :
                       rest \in SequentialErrors(text, language, table, n + 1)}
               ELSE IF sol = <<>>
                    THEN SequentialErrors(text, language, table, n + 1)
                    ELSE UNION {
                           {<<[error |-> e, solution |-> sol]>> \o rest :
                              rest \in SequentialErrors(text, language, after, n + 1)} :
                           after \in Recorded(table, e, sol, language)} :
               rows \in GetErrorSolutions(table, e, language)}

\* the results findRelevantSnippets can give when it runs alone on `table`
SequentialSnippets(text, language, table) ==
  LET exact == GetSnippets(table, language, SearchTerm(text), ExactMatchLimit)
  IN IF exact # {<<>>} THEN exact
     ELSE UNION {{Substring0(ranked, MaxRelevant) : ranked \in RankedByScore(all)} :
                  all \in GetSnippets(table, language, <<>>, 0)}

\* a step of one of the three branches of call c
BranchStep(c) ==
  /\ proc[c].pc \in {"analysis", "thrown"}
  /\ started' = started
  /\ det'[c] # det[c] \/ sug'[c] # sug[c] \/ snp'[c] # snp[c]

C12_WriteSets ==
  \A c \in Calls :
    BranchStep(c) =>
      /\ snippets' = snippets
      /\ contexts' = contexts
      /\ errorPatterns' # errorPatterns
           => det[c].pc = "rec_write" /\ sug'[c] = sug[c] /\ snp'[c] = snp[c]

C12_SameResult ==
  \A c \in Calls :
    proc[c].pc = "returned" =>
      /\ past = <<>> =>
           Errors(c) \in SequentialErrors(proc[c].text, proc[c].language, <<>>, 1)
      /\ IF sug[c].api = 1
         THEN Suggestions(c) = SuggestionsOf(SuggestFor(proc[c].text))
         ELSE Suggestions(c) = <<>> /\ faults > 0
      /\ IF SnippetsDefined(c)
         THEN Snippets(c) \in SequentialSnippets(proc[c].text, proc[c].language,
                                                 snippets)
         ELSE faults > 0

\* C12: within one call the branches' write sets are disjoint: a branch step
\* leaves the snippet rows and the developer-context rows unchanged, and the
\* error patterns change only in the Error Detector's recordError; so under
\* every interleaving of the branches the merged result is the one each branch
\* gives when it runs alone (the first call starts on the empty cache).
C12_DisjointWrites == [] C12_SameResult /\ [][C12_WriteSets]_vars

\* the first call returned with a pair from the API, a pair from the cache
\* entry it wrote itself, a suggestion and two snippets
C12_Witness ==
  \E c \in Calls :
    /\ proc[c].pc = "returned" /\ past = <<>>
    /\ proc[c].text = TextChained
    /\ Len(Errors(c)) = 2
    /\ det[c].log[1].write = "insert" /\ det[c].log[3].lookup = "hit"
    /\ Len(Suggestions(c)) = 1
    /\ Len(Snippets(c)) = 2

\* ---- C13
\* the cache rows the lookup of call c's current candidate matches
LookupRows(c) ==
  ErrorRowsLike(errorPatterns, proc[c].language,
                Substring0(det[c].errorText, LookupPrefixLen))

\* the pairs call c emits in this step
Emitted(c) == SubSeq(det'[c].found, Len(det[c].found) + 1, Len(det'[c].found))

\* a cache lookup of call c that returns records: one pair per returned
\* record, min(5, matching rows) of them, each the solution of a matching row
\* of its own, in order of non-increasing frequency, none of the rows left out
\* more frequent than one returned; and the cache is unchanged
C13_HitStep ==
  \A c \in Calls :
    /\ det[c].pc = "lookup" /\ det'[c].pc \notin {"lookup", "thrown"}
    /\ LookupRows(c) # {}
    =>
      LET hit == LookupRows(c)
          new == Emitted(c)
          row(i) == CHOOSE r \in hit : errorPatterns[r].solution = new[i].solution
          cap == IF Cardinality(hit) < SolutionsLimit THEN Cardinality(hit)
                 ELSE SolutionsLimit
      IN /\ det'[c].log[det[c].idx].lookup = "hit"
         /\ Len(new) = cap
         /\ det'[c].log[det[c].idx].emitted = cap
         /\ \A i \in DOMAIN new :
              /\ new[i].error = det[c].errorText
              /\ \E r \in hit : errorPatterns[r].solution = new[i].solution
         /\ \A i, j \in DOMAIN new :
              /\ i # j => row(i) # row(j)
              /\ i < j => errorPatterns[row(i)].frequency
                            >= errorPatterns[row(j)].frequency
         /\ \A r \in hit : \A i \in DOMAIN new :
              r \notin {row(j) : j \in DOMAIN new}
                => errorPatterns[r].frequency <= errorPatterns[row(i)].frequency
         /\ errorPatterns' = errorPatterns

\* for a candidate answered from the cache the API is not called and
\* recordError is not reached
C13_NoApiNoWrite ==
  \A c \in Calls : \A k \in 1..NumPatterns :
    det[c].log[k].lookup = "hit" =>
      /\ det[c].log[k].api = 0 /\ det[c].log[k].answer = "none"
      /\ det[c].log[k].write = "none"
      /\ det[c].log[k].emitted >= 1 /\ det[c].log[k].emitted <= SolutionsLimit
      /\ det[c].pc \notin {"api", "rec_select", "rec_write"} \/ det[c].idx # k

\* C13: when the cache lookup for a matched candidate returns records,
\* detectErrors emits one pair per returned record, at most 5 and in order of
\* non-increasing frequency, does not call the completion API for that
\* candidate, and leaves every error-pattern record unchanged.
C13_CacheHit == [] C13_NoApiNoWrite /\ [][C13_HitStep]_vars

\* six recorded patterns match, of frequencies 1 and 2; five pairs are emitted
C13_Witness ==
  \E c \in Calls : \E k \in 1..NumPatterns :
    /\ det[c].pc = "done"
    /\ det[c].log[k].lookup = "hit" /\ det[c].log[k].emitted = SolutionsLimit
    /\ Len(det[c].found) = SolutionsLimit
    /\ Len(errorPatterns) = MaxPatterns
    /\ \E i, j \in DOMAIN errorPatterns :
         errorPatterns[i].frequency = 1 /\ errorPatterns[j].frequency = 2

====
